---- MODULE Spec2Model ----
(***************************************************************************)
(* GLMHMM (src/glmhmm/glm_hmm.py): the EM controller `fit` and the         *)
(* post-fit objective of `computeVariance`.                                *)
(*                                                                         *)
(* Numbers.  A real number is the exact rational <<num, den>> in lowest    *)
(* terms with den > 0; <<0, 0>> is NaN.  A log-domain quantity (a          *)
(* log-likelihood, the tolerance, a regression weight) is held as the      *)
(* rational L whose natural logarithm it is: ll = ln L.  Sums of logs are  *)
(* products, exp of a log is the rational itself, and a + t >= b in the    *)
(* log domain is La * Lt >= Lb.                                            *)
(*                                                                         *)
(* The running log-likelihood of an E step is kept twice: ll is its value  *)
(* as a real number, ll64 is the binary64 value that `ll += ll_s` leaves   *)
(* in the float, followed through the rounding of every addition whenever  *)
(* every term is the double nearest to ln(1/2) (every cs[t] is exactly     *)
(* 1/2); in every other run ll64 is None64, the float not followed.        *)
(***************************************************************************)
EXTENDS Integers, Sequences, FiniteSets, TLC

VARIABLES
    \* the object (GLMHMM.__init__ / HMM.__init__)
    selfn, selfk, selfd, selfc, selfpi0,
    \* arguments of fit / computeVariance
    y, x, maxiter, tol, fit_init_states, B, sessArg, pi0Arg, gaussPrior,
    \* locals of fit
    pc, n, lls, A, w, phi, pi0, sess, todo,
    alpha, beta, cs, pBack, zhatBack, ll, ll64, ret,
    \* history of the run of fit
    msteps, eLL, snap, fwdPi0, warnings,
    \* locals of computeVariance and of its objective logLikelihood
    cvpc, params_flat, uA, uw, cvphi, cvcs, cvret

fitvars == <<pc, n, lls, A, w, phi, pi0, sess, todo, alpha, beta, cs, pBack,
             zhatBack, ll, ll64, ret, msteps, eLL, snap, fwdPi0, warnings, selfpi0>>
argvars == <<selfn, selfk, selfd, selfc, y, x, maxiter, tol, fit_init_states,
             B, sessArg, pi0Arg, gaussPrior>>
cvvars == <<cvpc, params_flat, uA, uw, cvphi, cvcs, cvret>>
vars == <<fitvars, argvars, cvvars>>

----------------------------------------------------------------------------
(* Bounds of the model *)

\* largest maxiter of the long runs (one time step, one state)
MaxIter == 8
\* largest number n of time steps
MaxN == 2
\* largest number n of time steps of the runs of one iteration that start
\* from dyadic parameters
MaxSessN == 5
\* largest number of sessions of those runs
MaxSess == 4

----------------------------------------------------------------------------
(* Exact arithmetic *)

NaN == <<0, 0>>
Zero == <<0, 1>>
One == <<1, 1>>

Abs(a) == IF a < 0 THEN -a ELSE a

\* a sequence given as a function, with its entries computed
Vec(f) == f \o <<>>

RECURSIVE GCD(_, _)
GCD(a, b) == IF b = 0 THEN a ELSE GCD(b, a % b)

IsNaN(q) == q[2] = 0

Norm(a, b) ==
    IF b = 0 THEN NaN
    ELSE LET g == GCD(Abs(a), Abs(b))
             s == IF b < 0 THEN -1 ELSE 1
         IN  <<(s * a) \div g, (s * b) \div g>>

\* the sum, over the least common denominator
QAdd(p, q) ==
    IF IsNaN(p) \/ IsNaN(q) THEN NaN
    ELSE LET g == GCD(p[2], q[2])
         IN  Norm(p[1] * (q[2] \div g) + q[1] * (p[2] \div g), (p[2] \div g) * q[2])
\* the product, common factors cancelled before multiplying
QMul(p, q) ==
    IF IsNaN(p) \/ IsNaN(q) THEN NaN
    ELSE LET g1 == GCD(Abs(p[1]), q[2])
             g2 == GCD(Abs(q[1]), p[2])
         IN  Norm((p[1] \div g1) * (q[1] \div g2), (p[2] \div g2) * (q[2] \div g1))
\* the quotient; x / 0 is NaN
QDiv(p, q) ==
    IF IsNaN(p) \/ IsNaN(q) \/ q[1] = 0 THEN NaN
    ELSE QMul(p, IF q[1] < 0 THEN <<-q[2], -q[1]>> ELSE <<q[2], q[1]>>)
\* p >= q; every comparison with NaN is false
QGeq(p, q) == /\ ~IsNaN(p)
              /\ ~IsNaN(q)
              /\ p[1] * q[2] >= q[1] * p[2]

RECURSIVE QPow(_, _)
QPow(q, e) == IF e = 0 THEN One
              ELSE IF e < 0 THEN QDiv(One, QPow(q, -e))
              ELSE QMul(q, QPow(q, e - 1))

RECURSIVE SumSeq(_)
SumSeq(s) == IF Len(s) = 0 THEN Zero
             ELSE QAdd(SumSeq(SubSeq(s, 1, Len(s) - 1)), s[Len(s)])

RECURSIVE ProdSeq(_)
ProdSeq(s) == IF Len(s) = 0 THEN One
              ELSE QMul(ProdSeq(SubSeq(s, 1, Len(s) - 1)), s[Len(s)])

\* v @ M
VecMat(v, M) ==
    Vec([j \in 1..Len(M[1]) |-> SumSeq(Vec([i \in 1..Len(v) |-> QMul(v[i], M[i][j])]))])
\* M @ v
MatVec(M, v) ==
    Vec([i \in 1..Len(M) |-> SumSeq(Vec([j \in 1..Len(v) |-> QMul(M[i][j], v[j])]))])

\* np.zeros((rows, cols)) and np.zeros(rows)
Zeros2(rows, cols) == Vec([t \in 1..rows |-> Vec([z \in 1..cols |-> Zero])])
Zeros1(rows) == Vec([t \in 1..rows |-> Zero])

\* python a[lo:hi]
Slice(a, lo, hi) == Vec([i \in 1..(hi - lo) |-> a[lo + i]])
\* python a[lo:hi] = vals
Stitch(a, lo, hi, vals) ==
    Vec([i \in 1..Len(a) |-> IF lo < i /\ i <= hi THEN vals[i - lo] ELSE a[i]])

----------------------------------------------------------------------------
(* IEEE-754 binary64 arithmetic on the values a log-likelihood takes: zero  *)
(* and negative numbers.  A number is [k, m, e]: k = "zero", or k = "num"   *)
(* and the number is -(m * 2^e) with m the 53 bits of the significand,      *)
(* most significant (a 1) first; k = "none" is a float that is not followed.*)

Zero64 == [k |-> "zero", m |-> <<>>, e |-> 0]
None64 == [k |-> "none", m |-> <<>>, e |-> 0]

\* np.log(0.5) = -0x1.62e42fefa39efp-1 = -6243314768165359 * 2^-53
Ln2_64 == [k |-> "num",
           m |-> <<1,0,1,1,0,0,0,1,0,1,1,1,0,0,1,0,0,0,0,1,0,1,1,1,1,1,1,1,0,
                   1,1,1,1,1,0,1,0,0,0,1,1,1,0,0,1,1,1,1,0,1,1,1,1>>,
           e |-> -53]

ZeroBits(d) == [i \in 1..d |-> 0] \o <<>>

\* the sum of two bit strings of one length, one bit longer (carry first);
\* the carry into a bit comes from the nearest less significant bit where
\* the operands agree, and is the bit they agree on
AddBits(X, Y) ==
    LET nb == Len(X)
        Carry(i) == \E j \in (i + 1)..nb :
                        /\ X[j] = 1 /\ Y[j] = 1
                        /\ \A k \in (i + 1)..(j - 1) : X[k] # Y[k]
    IN  [j \in 1..(nb + 1) |->
            IF j = 1 THEN IF Carry(0) THEN 1 ELSE 0
            ELSE (X[j - 1] + Y[j - 1] + IF Carry(j - 1) THEN 1 ELSE 0) % 2] \o <<>>

\* the leading carry bit dropped when it is 0
StripCarry(S) == IF S[1] = 0 THEN Tail(S) ELSE S

\* the bits after the 53rd are more than half a unit of the 53rd, or are
\* half a unit and the 53rd bit is odd
RoundsUp(T) ==
    /\ Len(T) >= 54
    /\ T[54] = 1
    /\ \/ T[53] = 1
       \/ \E i \in 55..Len(T) : T[i] = 1

\* the 54 bits K (carry first) of a rounded significand at the exponent e
Renorm(K, e) ==
    IF K[1] = 1 THEN [k |-> "num", m |-> SubSeq(K, 1, 53), e |-> e + 1]
    ELSE [k |-> "num", m |-> Tail(K), e |-> e]

\* the bits T (a 1 first, 53 or more) at the exponent e rounded to 53 bits,
\* ties to even
Round53(T, e) ==
    Renorm(IF RoundsUp(T)
           THEN AddBits(SubSeq(T, 1, 53), ZeroBits(52) \o <<1>>)
           ELSE <<0>> \o SubSeq(T, 1, 53),
           e + Len(T) - 53)

\* big + small for big.e >= small.e: the significands aligned at the smaller
\* exponent, added exactly, and the sum rounded
AddAligned(big, small) ==
    Round53(StripCarry(AddBits(big.m \o ZeroBits(big.e - small.e),
                               ZeroBits(big.e - small.e) \o small.m)),
            small.e)

\* a + b in binary64: the exact sum rounded to 53 bits, ties to even
FAdd64(a, b) ==
    IF a.k = "none" \/ b.k = "none" THEN None64
    ELSE IF a.k = "zero" THEN b
    ELSE IF b.k = "zero" THEN a
    ELSE IF a.e >= b.e THEN AddAligned(a, b)
    ELSE AddAligned(b, a)

\* np.log of a float that is exactly the rational q, where it is followed
Log64(q) == IF q = <<1, 2>> THEN Ln2_64 ELSE None64

\* np.sum(np.log(c)) of a short array: the terms added from the left
RECURSIVE SumLog64(_)
SumLog64(c) == IF Len(c) = 0 THEN Zero64
               ELSE FAdd64(SumLog64(SubSeq(c, 1, Len(c) - 1)), Log64(c[Len(c)]))

\* a rational that is a float and stays one through the products and sums
\* of a forward pass of a few steps
Dyadic(q) == q[2] \in {1, 2, 4}

----------------------------------------------------------------------------
(* Collaborators of fit that live outside glm_hmm.py: the HMM base class    *)
(* (forward and backward pass, transition and initial-state updates) and    *)
(* the GLM emission model and solver.                                       *)

\* np.ones(k)/k
Uniform(k) == Vec([z \in 1..k |-> <<1, k>>])

\* first index of the largest entry (np.argmax), 0-based
Argmax(v) ==
    (CHOOSE i \in 1..Len(v) :
        /\ \A j \in 1..Len(v) : QGeq(v[i], v[j])
        /\ \A j \in 1..(i - 1) : ~QGeq(v[j], v[i])) - 1

\* steps 1..t of the scaled forward recursion: a sequence of [alpha, c]
RECURSIVE FwdRec(_, _, _, _, _)
FwdRec(ys, AA, phis, p0, t) ==
    IF t = 0 THEN <<>>
    ELSE LET prev == FwdRec(ys, AA, phis, p0, t - 1)
             prior == IF t = 1 THEN p0 ELSE VecMat(prev[t - 1].alpha, AA)
             pxz == Vec([z \in 1..Len(AA) |-> QMul(phis[t][z][ys[t] + 1], prior[z])])
             c == SumSeq(pxz)
         IN  Append(prev, [alpha |-> Vec([z \in 1..Len(AA) |-> QDiv(pxz[z], c)]),
                           c |-> c])

\* the floats of a forward pass are the rationals of FwdRec: A and pi0 are
\* dyadic and every emission probability is 1/2, so that no product or sum
\* is rounded and every cs[t] is exactly 1/2
Exact64(AA, phis, p0) ==
    /\ \A i \in 1..Len(AA) : \A j \in 1..Len(AA[i]) : Dyadic(AA[i][j])
    /\ \A i \in 1..Len(p0) : Dyadic(p0[i])
    /\ \A t \in 1..Len(phis) : \A z \in 1..Len(phis[t]) :
           \A q \in 1..Len(phis[t][z]) : phis[t][z][q] = <<1, 2>>

\* ll_s, alpha_s, cs_s of one slice; pi0 = <<>> is None and means uniform.
\* ll is the sum of the logs of cs as a real number, ll64 as the float
forwardPass(ys, AA, phis, p0) ==
    LET p0eff == IF p0 = <<>> THEN Uniform(Len(AA)) ELSE p0
        f == FwdRec(ys, AA, phis, p0eff, Len(ys))
        c == Vec([t \in 1..Len(ys) |-> f[t].c])
    IN  [ll |-> ProdSeq(c),
         ll64 |-> IF Exact64(AA, phis, p0eff) THEN SumLog64(c) ELSE None64,
         alpha |-> Vec([t \in 1..Len(ys) |-> f[t].alpha]),
         cs |-> c]

\* beta[t..T] of the scaled backward recursion, as a sequence of T-t+1 rows
RECURSIVE BwdRec(_, _, _, _, _)
BwdRec(ys, AA, phis, c, t) ==
    IF t = Len(ys) THEN <<Vec([z \in 1..Len(AA) |-> One])>>
    ELSE LET rest == BwdRec(ys, AA, phis, c, t + 1)
             bp == Vec([z \in 1..Len(AA) |-> QMul(phis[t + 1][z][ys[t + 1] + 1], rest[1][z])])
             Ab == MatVec(AA, bp)
         IN  <<Vec([z \in 1..Len(AA) |-> QDiv(Ab[z], c[t + 1])])>> \o rest

\* pBack_s, beta_s, zhatBack_s of one slice
backwardPass(ys, AA, phis, al, c) ==
    LET b == BwdRec(ys, AA, phis, c, 1)
        g == Vec([t \in 1..Len(ys) |-> Vec([z \in 1..Len(AA) |-> QMul(al[t][z], b[t][z])])])
    IN  [pBack |-> g, beta |-> b,
         zhatBack |-> Vec([t \in 1..Len(ys) |-> Argmax(g[t])])]

\* expected i -> j transition counts summed over every adjacent pair of steps
XiSum(ys, al, be, c, AA, ph) ==
    Vec([i \in 1..Len(AA) |-> Vec([j \in 1..Len(AA) |->
        SumSeq(Vec([t \in 1..(Len(ys) - 1) |->
            QDiv(QMul(QMul(al[t][i], AA[i][j]),
                      QMul(ph[t + 1][j][ys[t + 1] + 1], be[t + 1][j])),
                 c[t + 1])]))])])

\* new A: XiSum with every row normalised; a row without mass keeps its value
updateTransitions(ys, al, be, c, AA, ph) ==
    LET xi == XiSum(ys, al, be, c, AA, ph)
    IN  Vec([i \in 1..Len(AA) |->
            IF SumSeq(xi[i]) = Zero THEN AA[i]
            ELSE Vec([j \in 1..Len(AA) |-> QDiv(xi[i][j], SumSeq(xi[i]))])])

\* new pi0: the responsibilities of the first step, normalised.  The call
\* in _updateParams passes the stitched gammas alone, without the session
\* boundaries, so the first step of the whole array is the only first step
\* it can tell
updateInitStates(gammas) ==
    Vec([z \in 1..Len(gammas[1]) |-> QDiv(gammas[1][z], SumSeq(gammas[1]))])

\* multinomial-logit emission probabilities of one input row xt under the
\* d x c weights wz of one state: softmax over the categories of xt @ wz
compObs(xt, wz) ==
    LET p == Vec([q \in 1..Len(wz[1]) |->
                ProdSeq(Vec([j \in 1..Len(xt) |-> QPow(wz[j][q], xt[j])]))])
    IN  Vec([q \in 1..Len(p) |-> QDiv(p[q], SumSeq(p))])

\* the weights the per-state regression solve of glm.GLM.fit may return
WeightSet == { << <<One, One>> >>, << <<<<3, 1>>, One>> >> }

\* phi[t, z, :] for all t, z from the weights
PhiOf(xs, ws) ==
    Vec([t \in 1..Len(xs) |-> Vec([z \in 1..Len(ws) |-> compObs(xs[t], ws[z])])])

----------------------------------------------------------------------------
(* GLMHMM._updateParams and GLMHMM.fit *)

\* the trace allocated zeroed and never filled with NaN
InitTraceZeros(m) == Vec([i \in 1..m |-> Zero])

\* fit: lls = np.empty(maxiter); lls[:] = np.nan
InitTrace(m) == Vec([i \in 1..m |-> NaN])

\* the default boundaries one step short of the end
DefaultSessShort(sa, nn) == IF sa = <<>> THEN <<0, nn - 1>> ELSE sa

\* fit: the session boundaries in use; <<>> is None
DefaultSess(sa, nn) == IF sa = <<>> THEN <<0, nn>> ELSE sa

\* ll = ll_s: the sum over the sessions lost
AccumLLAssign(acc, lls_s) == lls_s

\* fit: ll += ll_s, the value as a real number (log domain: the product of
\* the likelihoods)
AccumLL(acc, lls_s) == QMul(acc, lls_s)

\* ll = ll_s in the float
AccumLL64Assign(acc, lls_s) == lls_s

\* fit: ll += ll_s, the value of the float: the sum rounded to binary64
AccumLL64(acc, lls_s) == FAdd64(acc, lls_s)

\* fit: pBack_s ** B
Temper(g, b) == Vec([t \in 1..Len(g) |-> Vec([z \in 1..Len(g[t]) |-> QPow(g[t][z], b)])])

\* the rule against the immediately preceding trace entry
ConvergedLag1(i, trace, t, cur) == i > 5 /\ QGeq(QMul(trace[i - 1 + 1], t), cur)

\* fit: n > 5 and lls[n-5] + tol >= ll   (i is the 0-based iteration index)
Converged(i, trace, t, cur) == i > 5 /\ QGeq(QMul(trace[i - 5 + 1], t), cur)

\* a warning when the loop runs out of iterations
ExitWarningsAtMaxiter(stoppedByTol) ==
    IF stoppedByTol THEN {} ELSE {"NonConvergedWarning"}

\* fit: the warnings signalled when the loop is left; it signals none
ExitWarnings(stoppedByTol) == {}

\* pi0 re-estimated whether or not fit_init_states is set
updateParamsAlwaysPi0(ys, xs, gammas, be, al, c, AA, ph, ws, fis, spi0, wnew) ==
    [A |-> updateTransitions(ys, al, be, c, AA, ph),
     w |-> wnew,
     phi |-> PhiOf(xs, wnew),
     selfpi0 |-> updateInitStates(gammas)]

\* the transition update fed the tempered responsibilities in place of beta
updateParamsTemperedA(ys, xs, gammas, be, al, c, AA, ph, ws, fis, spi0, wnew) ==
    [A |-> updateTransitions(ys, al, gammas, c, AA, ph),
     w |-> wnew,
     phi |-> PhiOf(xs, wnew),
     selfpi0 |-> IF fis THEN updateInitStates(gammas) ELSE spi0]

\* _updateParams with the solver returning the weights wnew: the new
\* A, w, phi and self.pi0 (which is also the pi0 it returns)
updateParams(ys, xs, gammas, be, al, c, AA, ph, ws, fis, spi0, wnew) ==
    [A |-> updateTransitions(ys, al, be, c, AA, ph),
     w |-> wnew,
     phi |-> PhiOf(xs, wnew),
     selfpi0 |-> IF fis THEN updateInitStates(gammas) ELSE spi0]

\* fit, top of the function: trace, self.pi0, phi from w, default sessions
FitStart ==
    /\ pc = "start"
    /\ lls' = InitTrace(maxiter)
    /\ selfpi0' = pi0
    /\ phi' = PhiOf(x, w)
    /\ sess' = DefaultSess(sessArg, selfn)
    /\ n' = 0
    /\ pc' = "loop"
    /\ UNCHANGED <<A, w, pi0, todo, alpha, beta, cs, pBack, zhatBack, ll, ll64,
                   ret, msteps, eLL, snap, fwdPi0, warnings>>
    /\ UNCHANGED <<argvars, cvvars>>

\* the arrays and the log-likelihood an E step starts from
EStepZero ==
    [alpha |-> Zeros2(selfn, selfk),
     beta |-> Zeros2(selfn, selfk),
     cs |-> Zeros1(selfn),
     pBack |-> Zeros2(selfn, selfk),
     zhatBack |-> [t \in 1..selfn |-> 0],
     ll |-> One,
     ll64 |-> Zero64]

\* the session loop for the session between sess[s-1] and sess[s] (0-based),
\* s = 1 .. len(sess)-1: the forward and backward pass on the slice of the
\* session, and the values the loop body then stores (pBack_s ** B for pBack)
SessionResult(s) ==
    LET lo == sess[s]
        hi == sess[s + 1]
        f == forwardPass(Slice(y, lo, hi), A, Slice(phi, lo, hi), pi0)
        b == backwardPass(Slice(y, lo, hi), A, Slice(phi, lo, hi), f.alpha, f.cs)
    IN  [lo |-> lo, hi |-> hi, ll |-> f.ll, ll64 |-> f.ll64,
         alpha |-> f.alpha, cs |-> f.cs, pBack |-> Temper(b.pBack, B),
         beta |-> b.beta, zhatBack |-> b.zhatBack]

\* the session loop, the stores: ll += ll_s and the slice assignments, on the
\* arrays and log-likelihood st
StitchSession(st, r) ==
    [alpha |-> Stitch(st.alpha, r.lo, r.hi, r.alpha),
     beta |-> Stitch(st.beta, r.lo, r.hi, r.beta),
     cs |-> Stitch(st.cs, r.lo, r.hi, r.cs),
     pBack |-> Stitch(st.pBack, r.lo, r.hi, r.pBack),
     zhatBack |-> Stitch(st.zhatBack, r.lo, r.hi, r.zhatBack),
     ll |-> AccumLL(st.ll, r.ll),
     ll64 |-> AccumLL64(st.ll64, r.ll64)]

\* the body of the session loop for the session s
SessionBody(st, s) == StitchSession(st, SessionResult(s))

\* for n in range(maxiter): the arrays of the E step are zeroed
IterBegin ==
    /\ pc = "loop"
    /\ n < maxiter
    /\ alpha' = EStepZero.alpha
    /\ beta' = EStepZero.beta
    /\ cs' = EStepZero.cs
    /\ pBack' = EStepZero.pBack
    /\ zhatBack' = EStepZero.zhatBack
    /\ ll' = EStepZero.ll
    /\ ll64' = EStepZero.ll64
    /\ todo' = 1..(Len(sess) - 1)
    /\ snap' = [A |-> A, phi |-> phi, pi0 |-> pi0]
    /\ pc' = "estep"
    /\ UNCHANGED <<n, lls, A, w, phi, pi0, sess, ret, msteps, eLL, fwdPi0,
                   warnings, selfpi0>>
    /\ UNCHANGED <<argvars, cvvars>>

\* one pass of the session loop, for the session s
SessionStep(s) ==
    LET r == SessionBody([alpha |-> alpha, beta |-> beta, cs |-> cs,
                          pBack |-> pBack, zhatBack |-> zhatBack,
                          ll |-> ll, ll64 |-> ll64], s)
    IN  /\ ll' = r.ll
        /\ ll64' = r.ll64
        /\ alpha' = r.alpha
        /\ cs' = r.cs
        /\ pBack' = r.pBack
        /\ beta' = r.beta
        /\ zhatBack' = r.zhatBack
        /\ todo' = todo \ {s}
        /\ fwdPi0' = fwdPi0 \cup {pi0}
        /\ eLL' = IF todo' = {} THEN Append(eLL, ll') ELSE eLL
        /\ UNCHANGED <<pc, n, lls, A, w, phi, pi0, sess, ret, msteps, snap,
                       warnings, selfpi0>>
        /\ UNCHANGED <<argvars, cvvars>>

\* for s in range(len(sess)-1): the sessions in increasing order
EStepSession ==
    /\ pc = "estep"
    /\ todo # {}
    /\ SessionStep(CHOOSE s \in todo : \A r \in todo : s <= r)

\* the convergence check made before the M step, which the stopping
\* iteration then skips
MStepUnlessConverged ==
    /\ pc = "estep"
    /\ todo = {}
    /\ lls' = [lls EXCEPT ![n + 1] = ll]
    /\ IF Converged(n, lls', tol, ll)
       THEN UNCHANGED <<A, w, phi, selfpi0, pi0, msteps>>
       ELSE /\ \E wnew \in [1..selfk -> WeightSet] :
                LET u == updateParams(y, x, pBack, beta, alpha, cs, A, phi, w,
                                      fit_init_states, selfpi0, wnew)
                IN  /\ A' = u.A
                    /\ w' = u.w
                    /\ phi' = u.phi
                    /\ selfpi0' = u.selfpi0
                    /\ pi0' = u.selfpi0
            /\ msteps' = msteps + 1
    /\ pc' = "check"
    /\ UNCHANGED <<n, sess, todo, alpha, beta, cs, pBack, zhatBack, ll, ll64, ret,
                   eLL, snap, fwdPi0, warnings>>
    /\ UNCHANGED <<argvars, cvvars>>

\* lls[n] = ll and the M step
MStep ==
    /\ pc = "estep"
    /\ todo = {}
    /\ \E wnew \in [1..selfk -> WeightSet] :
        LET u == updateParams(y, x, pBack, beta, alpha, cs, A, phi, w,
                              fit_init_states, selfpi0, wnew)
        IN  /\ A' = u.A
            /\ w' = u.w
            /\ phi' = u.phi
            /\ selfpi0' = u.selfpi0
            /\ pi0' = u.selfpi0
    /\ lls' = [lls EXCEPT ![n + 1] = ll]
    /\ msteps' = msteps + 1
    /\ pc' = "check"
    /\ UNCHANGED <<n, sess, todo, alpha, beta, cs, pBack, zhatBack, ll, ll64, ret,
                   eLL, snap, fwdPi0, warnings>>
    /\ UNCHANGED <<argvars, cvvars>>

\* lls[n] = ll; break when the tolerance is reached, else the next iteration;
\* after a break the function returns
ConvergenceCheck ==
    /\ pc = "check"
    /\ lls' = [lls EXCEPT ![n + 1] = ll]
    /\ IF Converged(n, lls', tol, ll)
       THEN /\ pc' = "done"
            /\ ret' = <<lls', A, w, pi0>>
            /\ warnings' = warnings \cup ExitWarnings(TRUE)
            /\ n' = n
       ELSE /\ pc' = "loop"
            /\ n' = n + 1
            /\ UNCHANGED <<ret, warnings>>
    /\ UNCHANGED <<A, w, phi, pi0, sess, todo, alpha, beta, cs, pBack, zhatBack,
                   ll, ll64, msteps, eLL, snap, fwdPi0, selfpi0>>
    /\ UNCHANGED <<argvars, cvvars>>

\* range(maxiter) is exhausted: return lls, A, w, pi0
LoopExit ==
    /\ pc = "loop"
    /\ n >= maxiter
    /\ pc' = "done"
    /\ ret' = <<lls, A, w, pi0>>
    /\ warnings' = warnings \cup ExitWarnings(FALSE)
    /\ UNCHANGED <<n, lls, A, w, phi, pi0, sess, todo, alpha, beta, cs, pBack,
                   zhatBack, ll, ll64, msteps, eLL, snap, fwdPi0, selfpi0>>
    /\ UNCHANGED <<argvars, cvvars>>

----------------------------------------------------------------------------
(* Initial states: the arguments of one call *)

TolSet == {One, <<2, 1>>}
ASet == { << <<<<1, 2>>, <<1, 2>>>>, <<<<1, 2>>, <<1, 2>>>> >>,
          << <<<<3, 4>>, <<1, 4>>>>, <<<<1, 4>>, <<3, 4>>>> >> }
W0Set == { << << <<One, One>> >>, << <<<<3, 1>>, One>> >> >>,
           << << <<<<3, 1>>, One>> >>, << <<<<3, 1>>, One>> >> >> }
\* maxiter of the runs on two states: the exact arithmetic of a third E step
\* on re-estimated parameters leaves the machine integers
DataIterSet == {0, 1}
Pi0Set == { <<>>, << <<1, 4>>, <<3, 4>> >> }

\* strictly increasing boundary arrays from 0 to nn, and None
SessSet(nn) ==
    {<<>>} \cup
    { s \in UNION {[1..m -> 0..nn] : m \in 2..(nn + 1)} :
        /\ s[1] = 0
        /\ s[Len(s)] = nn
        /\ \A i \in 1..(Len(s) - 1) : s[i] < s[i + 1] }

\* the locals of fit before the call
FitIdle ==
    /\ n = 0
    /\ lls = <<>>
    /\ phi = <<>>
    /\ sess = <<>>
    /\ todo = {}
    /\ alpha = <<>>
    /\ beta = <<>>
    /\ cs = <<>>
    /\ pBack = <<>>
    /\ zhatBack = <<>>
    /\ ll = One
    /\ ll64 = Zero64
    /\ ret = <<>>
    /\ msteps = 0
    /\ eLL = <<>>
    /\ snap = [A |-> <<>>, phi |-> <<>>, pi0 |-> <<>>]
    /\ fwdPi0 = {}
    /\ warnings = {}
    /\ selfpi0 = <<>>

\* the locals of computeVariance before the call
CvIdle ==
    /\ cvpc = "idle"
    /\ params_flat = <<>>
    /\ uA = <<>>
    /\ uw = <<>>
    /\ cvphi = <<>>
    /\ cvcs = <<>>
    /\ cvret = [err |-> "", nll |-> NaN, coef |-> NaN, sq |-> <<>>]

\* a call of fit on n >= 2 time steps with two states
InitData ==
    /\ selfk = 2
    /\ selfd = 1
    /\ selfc = 2
    /\ selfn \in 2..MaxN
    /\ y \in [1..selfn -> 0..1]
    /\ x = [t \in 1..selfn |-> <<IF t % 2 = 1 THEN 1 ELSE -1>>]
    /\ A \in ASet
    /\ w \in W0Set
    /\ pi0Arg \in Pi0Set
    /\ pi0 = pi0Arg
    /\ fit_init_states \in BOOLEAN
    /\ maxiter \in DataIterSet
    /\ tol = One
    /\ sessArg \in SessSet(selfn)
    /\ B \in {1, 2}
    /\ gaussPrior = 0
    /\ pc = "start"
    /\ FitIdle
    /\ CvIdle

\* a call of fit on one time step with one state, for many iterations
InitLong ==
    /\ selfk = 1
    /\ selfd = 1
    /\ selfc = 2
    /\ selfn = 1
    /\ y = <<0>>
    /\ x = <<<<1>>>>
    /\ A = <<<<One>>>>
    /\ w \in [1..1 -> WeightSet]
    /\ pi0Arg = <<>>
    /\ pi0 = pi0Arg
    /\ fit_init_states \in BOOLEAN
    /\ maxiter \in 0..MaxIter
    /\ tol \in TolSet
    /\ sessArg = <<>>
    /\ B = 1
    /\ gaussPrior = 0
    /\ pc = "start"
    /\ FitIdle
    /\ CvIdle

\* the weights of the runs of one iteration: every weight zero, so that
\* every emission probability is 1/2, and one state with a nonzero weight
WSessSet == { << << <<One, One>> >>, << <<One, One>> >> >>,
              << << <<One, One>> >>, << <<<<3, 1>>, One>> >> >> }

\* a call of fit for one iteration on up to MaxSessN time steps in up to
\* MaxSess sessions of one or more steps, with two states and dyadic A and
\* pi0; the squares
\* of tempering (B = 2) are taken with the zero weights only, since with the
\* other weights the exact arithmetic leaves the machine integers
InitSess ==
    /\ selfk = 2
    /\ selfd = 1
    /\ selfc = 2
    /\ selfn \in 2..MaxSessN
    /\ y = [t \in 1..selfn |-> t % 2]
    /\ x = [t \in 1..selfn |-> <<IF t % 2 = 1 THEN 1 ELSE -1>>]
    /\ A = << <<<<3, 4>>, <<1, 4>>>>, <<<<1, 4>>, <<3, 4>>>> >>
    /\ w \in WSessSet
    /\ pi0Arg \in Pi0Set
    /\ pi0 = pi0Arg
    /\ fit_init_states = FALSE
    /\ maxiter = 1
    /\ tol = One
    /\ sessArg \in {s \in SessSet(selfn) : Len(s) <= MaxSess + 1}
    /\ B \in IF \A z \in 1..selfk : w[z] = << <<One, One>> >> THEN {1, 2} ELSE {1}
    /\ gaussPrior = 0
    /\ pc = "start"
    /\ FitIdle
    /\ CvIdle

Init == InitData \/ InitLong

Next ==
    \/ FitStart
    \/ IterBegin
    \/ EStepSession
    \/ MStep
    \/ ConvergenceCheck
    \/ LoopExit

Spec == Init /\ [][Next]_vars

\* the same fit on the runs of one iteration over several sessions
SpecE == InitSess /\ [][Next]_vars

----------------------------------------------------------------------------
(* Properties of fit *)

Min(a, b) == IF a <= b THEN a ELSE b

\* the tolerance rule at the 0-based iteration i, read off the trace
StopAt(i) == i > 5 /\ QGeq(QMul(lls[i - 5 + 1], tol), lls[i + 1])

\* the number of trace entries that are not NaN
Recorded == Cardinality({i \in 1..Len(lls) : ~IsNaN(lls[i])})

\* the session whose index range holds the time step t (1-based)
SessOf(t) == CHOOSE s \in 1..(Len(sess) - 1) : sess[s] < t /\ t <= sess[s + 1]

\* forward and backward pass of the session s on its own slice of y and phi,
\* with the parameters the iteration started from
SessFwd(s) == forwardPass(Slice(y, sess[s], sess[s + 1]), snap.A,
                          Slice(snap.phi, sess[s], sess[s + 1]), snap.pi0)
SessBwd(s) == backwardPass(Slice(y, sess[s], sess[s + 1]), snap.A,
                           Slice(snap.phi, sess[s], sess[s + 1]),
                           SessFwd(s).alpha, SessFwd(s).cs)

\* the untempered E step of the iteration, session by session
RefAlpha == Vec([t \in 1..selfn |-> SessFwd(SessOf(t)).alpha[t - sess[SessOf(t)]]])
RefCs == Vec([t \in 1..selfn |-> SessFwd(SessOf(t)).cs[t - sess[SessOf(t)]]])
RefBeta == Vec([t \in 1..selfn |-> SessBwd(SessOf(t)).beta[t - sess[SessOf(t)]]])
RefGamma == Vec([t \in 1..selfn |-> SessBwd(SessOf(t)).pBack[t - sess[SessOf(t)]]])

\* C1: when fit has returned after m iterations, m <= maxiter, m >= min(maxiter, 7),
\* the last iteration is maxiter-1 or satisfies the tolerance rule against the
\* trace entry five iterations back, and no earlier iteration satisfied it.
C1_StopRule ==
    pc = "done" =>
        /\ msteps <= maxiter
        /\ msteps >= Min(maxiter, 7)
        /\ (msteps = 0 => maxiter = 0)
        /\ (msteps > 0 => (msteps = maxiter \/ StopAt(msteps - 1)))
        /\ \A i \in 0..(msteps - 2) : ~StopAt(i)

\* the loop stopped by the tolerance rule at the first iteration that can
C1_Witness == pc = "done" /\ msteps = 7 /\ maxiter > 7 /\ StopAt(6)

\* C2: the returned trace has length maxiter; its first m entries are the
\* log-likelihoods summed over the sessions in the m E steps that ran, in
\* order, and every later entry is NaN.
C2_Trace ==
    pc = "done" =>
        /\ Len(ret[1]) = maxiter
        /\ Len(eLL) <= maxiter
        /\ \A i \in 1..maxiter :
            IF i <= Len(eLL) THEN ret[1][i] = eLL[i] /\ ~IsNaN(ret[1][i])
            ELSE ret[1][i] = NaN

\* fit returned before maxiter iterations had run: a NaN tail remains
C2_Witness ==
    pc = "done" /\ Len(eLL) > 0 /\ Len(eLL) < maxiter /\ ret[1][maxiter] = NaN

\* fit ran out of iterations without the tolerance rule ever being satisfied
NeverConverged ==
    pc = "done" /\ msteps = maxiter /\ \A i \in 0..(maxiter - 1) : ~StopAt(i)

\* C3 as stated: leaving the loop at maxiter without the tolerance rule ever
\* being satisfied signals NonConvergedWarning, and leaving it by the
\* tolerance rule signals none.
C3_Original ==
    (pc = "done" /\ maxiter >= 1) =>
        ("NonConvergedWarning" \in warnings <=> NeverConverged)

\* C3 amended: fit signals no warning however the loop is left; it returns
\* the trace of length maxiter with A, w and pi0.
C3_NoWarning ==
    pc = "done" =>
        /\ warnings = {}
        /\ ret = <<lls, A, w, pi0>>
        /\ Len(ret[1]) = maxiter

\* seven or more iterations ran and the tolerance rule never held
C3_Witness == NeverConverged /\ maxiter >= 7

\* C4: with fit_init_states false, the pi0 local, self.pi0, every pi0 handed
\* to forwardPass and the returned pi0 are the pi0 argument.
C4_Pi0Fixed ==
    (~fit_init_states /\ pc # "start") =>
        /\ pi0 = pi0Arg
        /\ selfpi0 = pi0Arg
        /\ fwdPi0 \subseteq {pi0Arg}
        /\ (pc = "done" => ret[4] = pi0Arg)

\* a run over two sessions with a given pi0 came back after an M step
C4_Witness ==
    /\ ~fit_init_states
    /\ pc = "done"
    /\ msteps >= 1
    /\ Len(sess) >= 3
    /\ pi0Arg # <<>>
    /\ fwdPi0 = {pi0Arg}

\* C7: with sess = None and with sess = [0, n] the boundaries in use are
\* [0, n], and the arrays and the log-likelihood of every E step are those of
\* one forward and backward pass over the whole sequence.
C7_SingleSession ==
    (sessArg \in {<<>>, <<0, selfn>>} /\ pc # "start") =>
        /\ sess = <<0, selfn>>
        /\ (pc \in {"check"} \/ (pc = "estep" /\ todo = {}) =>
              LET f == forwardPass(y, snap.A, snap.phi, snap.pi0)
                  b == backwardPass(y, snap.A, snap.phi, f.alpha, f.cs)
              IN  /\ alpha = f.alpha
                  /\ cs = f.cs
                  /\ ll = f.ll
                  /\ beta = b.beta
                  /\ pBack = Temper(b.pBack, B)
                  /\ lls[n + 1] \in {NaN, f.ll})

\* the default boundaries were used for an E step and an M step
C7_Witness == sessArg = <<>> /\ pc = "check" /\ selfk = 2 /\ lls[1] = ll

\* the sessions of the run, and every order in which they can be taken,
\* each once
Sessions == 1..(Len(sess) - 1)
Orders == { p \in [Sessions -> Sessions] :
              \A a, b \in Sessions : p[a] = p[b] => a = b }

\* the passes of every session on its slice: they read y, A, phi and pi0,
\* which the loop does not write, so that they are the same whenever taken
SessionResults == Vec([s \in 1..(Len(sess) - 1) |-> SessionResult(s)])

\* the loop body run for the sessions of p in the order of p, from the
\* zeroed arrays: the arrays and log-likelihood before the first session and
\* after each; res is SessionResults
RECURSIVE FoldTrace(_, _)
FoldTrace(p, res) ==
    IF Len(p) = 0 THEN <<EStepZero>>
    ELSE LET tr == FoldTrace(SubSeq(p, 1, Len(p) - 1), res)
         IN  Append(tr, StitchSession(tr[Len(tr)], res[p[Len(p)]]))

\* the arrays and log-likelihood after the last session of p
FoldSessions(p, res) == FoldTrace(p, res)[Len(p) + 1]

\* the float log-likelihoods v of the sessions added in the order of p
RECURSIVE Sum64InOrder(_, _)
Sum64InOrder(p, v) ==
    IF Len(p) = 0 THEN Zero64
    ELSE FAdd64(Sum64InOrder(SubSeq(p, 1, Len(p) - 1), v), v[p[Len(p)]])

\* the float log-likelihood of every session from its own slice
SessLL64 == Vec([s \in 1..(Len(sess) - 1) |-> SessFwd(s).ll64])

\* the index ranges of the sessions are not empty, pairwise disjoint and
\* together cover 1..n
RangesPartition ==
    /\ \A s \in Sessions : sess[s] < sess[s + 1]
    /\ \A t \in 1..selfn : \E s \in Sessions :
           /\ sess[s] < t /\ t <= sess[s + 1]
           /\ \A r \in Sessions : (sess[r] < t /\ t <= sess[r + 1]) => r = s

\* in the arrays r the ranges of the sessions of T hold the results of those
\* sessions on their own slices (ref) and every other range is still zero
FilledExactly(r, T, ref) ==
    \A t \in 1..selfn :
        IF SessOf(t) \in T
        THEN /\ r.alpha[t] = ref.alpha[t]
             /\ r.cs[t] = ref.cs[t]
             /\ r.pBack[t] = ref.pBack[t]
             /\ r.beta[t] = ref.beta[t]
        ELSE /\ r.alpha[t] = Zeros1(selfk)
             /\ r.cs[t] = Zero
             /\ r.pBack[t] = Zeros1(selfk)
             /\ r.beta[t] = Zeros1(selfk)

\* the sum, as a real number, of the log-likelihoods v of the sessions of T
LLOf(T, v) == ProdSeq(Vec([s \in 1..(Len(sess) - 1) |->
                              IF s \in T THEN v[s] ELSE One]))

\* the log-likelihood, as a real number, of every session from its own slice
SessLL == Vec([s \in 1..(Len(sess) - 1) |-> SessFwd(s).ll])

\* the E step of the iteration computed session by session on the slices
RefEStep == [alpha |-> RefAlpha, cs |-> RefCs,
             pBack |-> Temper(RefGamma, B), beta |-> RefBeta]

\* the arrays and the log-likelihood in the variables of fit
CurEStep == [alpha |-> alpha, cs |-> cs, pBack |-> pBack, beta |-> beta,
             ll |-> ll, ll64 |-> ll64]

\* C8 as stated: when the session loop of an E step has ended, the loop body
\* run for the sessions in any other order from the zeroed arrays gives the
\* same stitched alpha, cs, pBack and beta and the same ll, in the float as
\* well as in the reals.
C8_AnyOrderSameLL ==
    (pc = "estep" /\ todo = {}) =>
        LET res == SessionResults
        IN  \A p \in Orders :
                LET r == FoldSessions(p, res)
                IN  /\ r.alpha = alpha
                    /\ r.cs = cs
                    /\ r.pBack = pBack
                    /\ r.beta = beta
                    /\ r.ll = ll
                    /\ r.ll64 = ll64

\* C8: during the session loop a session not yet taken has left its index
\* range of alpha, cs, pBack and beta untouched, a session taken has filled
\* exactly its range from its own slice, the ranges partition 1..n, A, phi and
\* pi0 are not written, and ll is as a real number the sum over the sessions
\* taken.  When the loop has ended, the loop body run for the sessions in any
\* order gives the same after each of its passes: the ranges of exactly the
\* sessions taken filled with the same values, and the same real sum; so
\* every order gives the arrays and the real ll of the loop.  The float ll is
\* the per-session values added and rounded in the order taken: it is the
\* same for the two orders of two sessions, and with at most two sessions it
\* is the float of the loop.
C8_OrderFree ==
    pc = "estep" =>
        LET ref == RefEStep
            res == SessionResults
            v == SessLL
            v64 == SessLL64
            ns == Len(sess) - 1
        IN  /\ FilledExactly(CurEStep, Sessions \ todo, ref)
            /\ RangesPartition
            /\ ll = LLOf(Sessions \ todo, v)
            /\ <<A, phi, pi0>> = <<snap.A, snap.phi, snap.pi0>>
            /\ todo = {} =>
                 \A p \in Orders :
                     LET tr == FoldTrace(p, res)
                     IN  /\ \A j \in 0..ns :
                                LET T == {p[i] : i \in 1..j}
                                IN  /\ FilledExactly(tr[j + 1], T, ref)
                                    /\ tr[j + 1].ll = LLOf(T, v)
                         /\ tr[ns + 1].ll64 = Sum64InOrder(p, v64)
                         /\ ns >= 2 => tr[3].ll64 = FAdd64(v64[p[2]], v64[p[1]])
                         /\ tr[ns + 1].alpha = alpha
                         /\ tr[ns + 1].cs = cs
                         /\ tr[ns + 1].pBack = pBack
                         /\ tr[ns + 1].beta = beta
                         /\ tr[ns + 1].ll = ll
                         /\ ns <= 2 => tr[ns + 1].ll64 = ll64

\* the loop has ended after three or more sessions, one of them of several
\* steps, with the float log-likelihood followed
C8_Witness ==
    /\ pc = "estep"
    /\ todo = {}
    /\ Len(sess) >= 4
    /\ \E s \in 1..(Len(sess) - 1) : sess[s + 1] - sess[s] >= 2
    /\ ll64.k = "num"

\* C9: when fit has returned, the number of M steps is the number of non-NaN
\* trace entries and of E steps; the last trace entry is the log-likelihood of
\* the parameters the last iteration started from, and the returned A, w are
\* the M step's update of those parameters.
C9_MStepAfterLastLL ==
    pc = "done" =>
        /\ msteps = Recorded
        /\ msteps = Len(eLL)
        /\ (msteps > 0 =>
              /\ lls[msteps] = ProdSeq(RefCs)
              /\ ret[2] = updateTransitions(y, RefAlpha, RefBeta, RefCs, snap.A, snap.phi)
              /\ ret[3] \in [1..selfk -> WeightSet]
              /\ phi = PhiOf(x, ret[3]))

\* the loop was stopped by the tolerance rule and the parameters it returns
\* differ from the ones the last log-likelihood was computed from
C9_Witness ==
    /\ pc = "done"
    /\ msteps > 0
    /\ msteps < maxiter
    /\ phi # snap.phi

\* C10: the A that an M step produces is the transition update of the
\* untempered alpha, beta and cs of the iteration, whatever B is.
C10_TransitionsIgnoreB ==
    pc = "check" =>
        A = updateTransitions(y, RefAlpha, RefBeta, RefCs, snap.A, snap.phi)

\* an M step ran on responsibilities that the temperature changed
C10_Witness ==
    /\ pc = "check"
    /\ B = 2
    /\ pBack # RefGamma
    /\ A # snap.A

----------------------------------------------------------------------------
(* GLMHMM.computeVariance: the flattened parameters and the objective        *)
(* logLikelihood evaluated at them; the Hessian of the objective and its     *)
(* inverse are computed by autograd and numpy from this objective.           *)

\* A[:, 0:k-1].flatten(order='C')
FlattenA(AA, k) ==
    Vec([e \in 1..(k * (k - 1)) |-> AA[((e - 1) \div (k - 1)) + 1][((e - 1) % (k - 1)) + 1]])

\* w.flatten(order='C') of a k x d x cols tensor
FlattenW(ws) ==
    LET d == Len(ws[1])
        cols == Len(ws[1][1])
    IN  Vec([e \in 1..(Len(ws) * d * cols) |->
            ws[((e - 1) \div (d * cols)) + 1][(((e - 1) \div cols) % d) + 1][((e - 1) % cols) + 1]])

\* npa.reshape(v, (r, c)) of a vector of r*c entries
Reshape2(v, r, c) ==
    Vec([i \in 1..r |-> Vec([j \in 1..c |-> v[(i - 1) * c + j]])])

\* npa.reshape(v, (a, b, c)) of a vector of a*b*c entries
Reshape3(v, a, b, c) ==
    Vec([i \in 1..a |-> Vec([j \in 1..b |-> Vec([q \in 1..c |->
        v[(i - 1) * b * c + (j - 1) * c + q]])])])

\* logLikelihood: A from the first k*(k-1) parameters, the last column being
\* 1 - the sum of the others
UnflattenA(pf, k) ==
    LET m == Reshape2(Slice(pf, 0, k * (k - 1)), k, k - 1)
    IN  Vec([i \in 1..k |->
            m[i] \o <<QAdd(One, QMul(<<-1, 1>>, SumSeq(m[i])))>>])

\* logLikelihood: the emission probabilities of state zi, time step by time
\* step: exp(x @ w_new), a column of ones appended, rows normalised
CvPhiState(xs, wz) ==
    Vec([t \in 1..Len(xs) |->
        LET p == Vec([q \in 1..Len(wz[1]) |->
                     ProdSeq(Vec([j \in 1..Len(xs[t]) |-> QPow(wz[j][q], xs[t][j])]))])
                 \o <<One>>
        IN  Vec([q \in 1..Len(p) |-> QDiv(p[q], SumSeq(p))])])

\* logLikelihood: steps 1..t of the forward recursion, a sequence of [aa, c];
\* the first time bin takes the emission probabilities alone
RECURSIVE CvFwdRec(_, _, _, _)
CvFwdRec(ys, AA, ph, t) ==
    IF t = 0 THEN <<>>
    ELSE LET prev == CvFwdRec(ys, AA, ph, t - 1)
             like == Vec([z \in 1..Len(AA) |-> ph[z][t][ys[t] + 1]])
             pxz == IF t = 1 THEN like
                    ELSE LET aaprior == VecMat(prev[t - 1].aa, AA)
                         IN  Vec([z \in 1..Len(AA) |-> QMul(like[z], aaprior[z])])
             c == SumSeq(pxz)
         IN  Append(prev, [aa |-> Vec([z \in 1..Len(AA) |-> QDiv(pxz[z], c)]),
                           c |-> c])

NoResult == [err |-> "", nll |-> NaN, coef |-> NaN, sq |-> <<>>]
Raised(e) == [err |-> e, nll |-> NaN, coef |-> NaN, sq |-> <<>>]

\* logLikelihood, the return statement: -sum(log cs) + 1/(2*gaussPrior**2) *
\* sum(w**2), held as the log-domain nll, the coefficient and the weights
\* whose squares are summed; python raises on 1/0
Objective(c, ws, g) ==
    IF 2 * (g * g) = 0 THEN Raised("ZeroDivisionError")
    ELSE [err |-> "",
          nll |-> QDiv(One, ProdSeq(c)),
          coef |-> Norm(1, 2 * (g * g)),
          sq |-> FlattenW(ws)]

\* computeVariance: params_flat = hstack(A_flat, w_flat)
CvFlatten ==
    /\ cvpc = "start"
    /\ params_flat' = FlattenA(A, selfk) \o FlattenW(w)
    /\ cvpc' = "unflatten"
    /\ UNCHANGED <<uA, uw, cvphi, cvcs, cvret>>
    /\ UNCHANGED <<fitvars, argvars>>

\* logLikelihood: unflatten A and w; the reshape of the weights to
\* (k, d, c-1) raises when the sizes differ
CvUnflatten ==
    /\ cvpc = "unflatten"
    /\ uA' = UnflattenA(params_flat, selfk)
    /\ LET wflat == Slice(params_flat, selfk * (selfk - 1), Len(params_flat))
       IN  IF Len(wflat) = selfk * selfd * (selfc - 1)
           THEN /\ uw' = Reshape3(wflat, selfk, selfd, selfc - 1)
                /\ cvpc' = "emissions"
                /\ UNCHANGED cvret
           ELSE /\ cvret' = Raised("ValueError")
                /\ cvpc' = "error"
                /\ UNCHANGED uw
    /\ UNCHANGED <<params_flat, cvphi, cvcs>>
    /\ UNCHANGED <<fitvars, argvars>>

\* logLikelihood: phi for every state
CvEmissions ==
    /\ cvpc = "emissions"
    /\ cvphi' = Vec([z \in 1..selfk |-> CvPhiState(x, uw[z])])
    /\ cvpc' = "forward"
    /\ UNCHANGED <<params_flat, uA, uw, cvcs, cvret>>
    /\ UNCHANGED <<fitvars, argvars>>

\* logLikelihood: the forward pass over the n time bins
CvForward ==
    /\ cvpc = "forward"
    /\ LET f == CvFwdRec(y, uA, cvphi, selfn)
       IN  cvcs' = Vec([t \in 1..selfn |-> f[t].c])
    /\ cvpc' = "objective"
    /\ UNCHANGED <<params_flat, uA, uw, cvphi, cvret>>
    /\ UNCHANGED <<fitvars, argvars>>

\* logLikelihood: the value returned to the Hessian computation
CvObjective ==
    /\ cvpc = "objective"
    /\ cvret' = Objective(cvcs, uw, gaussPrior)
    /\ cvpc' = IF cvret'.err = "" THEN "hessian" ELSE "error"
    /\ UNCHANGED <<params_flat, uA, uw, cvphi, cvcs>>
    /\ UNCHANGED <<fitvars, argvars>>

KSet == {1, 2}
DSet == {1, 2}
CSet == {2, 3}
GaussSet == {0, 1, 2}

\* weight tensors k x d x cols: all zero weights, and all entries different
WTensors(k, d, cols) ==
    { Vec([s \in 1..k |-> Vec([j \in 1..d |-> Vec([q \in 1..cols |-> One])])]),
      Vec([s \in 1..k |-> Vec([j \in 1..d |-> Vec([q \in 1..cols |->
          <<1 + (s - 1) * d * cols + (j - 1) * cols + q, 1>>])])]) }

\* a call of computeVariance; w is the documented k x d x c tensor or the
\* k x d x (c-1) block of its free categories
InitVar ==
    /\ selfk \in KSet
    /\ selfd \in DSet
    /\ selfc \in CSet
    /\ selfn \in 1..MaxN
    /\ y \in [1..selfn -> 0..(selfc - 1)]
    /\ x = Vec([t \in 1..selfn |-> Vec([j \in 1..selfd |-> IF (t + j) % 2 = 0 THEN 1 ELSE -1])])
    /\ A \in IF selfk = 1 THEN {<<<<One>>>>} ELSE ASet
    /\ w \in WTensors(selfk, selfd, selfc) \cup WTensors(selfk, selfd, selfc - 1)
    /\ gaussPrior \in GaussSet
    /\ pi0Arg = <<>>
    /\ pi0 = <<>>
    /\ fit_init_states = FALSE
    /\ maxiter = 0
    /\ tol = One
    /\ sessArg = <<>>
    /\ B = 1
    /\ pc = "idle"
    /\ FitIdle
    /\ cvpc = "start"
    /\ params_flat = <<>>
    /\ uA = <<>>
    /\ uw = <<>>
    /\ cvphi = <<>>
    /\ cvcs = <<>>
    /\ cvret = NoResult

NextVar ==
    \/ CvFlatten
    \/ CvUnflatten
    \/ CvEmissions
    \/ CvForward
    \/ CvObjective

SpecVar == InitVar /\ [][NextVar]_vars

\* C5: with gaussPrior = 0 the objective, once the forward pass is done, is
\* evaluated without an error and is -sum(log cs) with no penalty term.
C5_NoPriorNoPenalty ==
    (gaussPrior = 0 /\ cvpc \in {"hessian", "error"} /\ Len(cvcs) = selfn) =>
        /\ cvret.err = ""
        /\ cvret.nll = QDiv(One, ProdSeq(cvcs))
        /\ ~IsNaN(cvret.nll)
        /\ (cvret.coef = Zero \/ cvret.sq = <<>>)

\* C6: for a k x d x c tensor w the flattened vector is the first k-1 columns
\* of A row by row, then the first c-1 categories of every state and input of
\* w; the objective unflattens it without an error into A with last column
\* 1 - the row's sum and the k x d x (c-1) block with entry [s, j, q] = w[s, j, q].
C6_FlattenRoundTrip ==
    (Len(w[1][1]) = selfc /\ cvpc \notin {"idle", "start"}) =>
        /\ Len(params_flat) = selfk * (selfk - 1) + selfk * selfd * (selfc - 1)
        /\ \A i \in 1..selfk : \A j \in 1..(selfk - 1) :
               params_flat[(i - 1) * (selfk - 1) + j] = A[i][j]
        /\ \A s \in 1..selfk : \A j \in 1..selfd : \A q \in 1..(selfc - 1) :
               params_flat[selfk * (selfk - 1) + (s - 1) * selfd * (selfc - 1)
                           + (j - 1) * (selfc - 1) + q] = w[s][j][q]
        /\ (cvpc # "unflatten" =>
              /\ cvret.err # "ValueError"
              /\ \A i \in 1..selfk :
                     /\ Len(uA[i]) = selfk
                     /\ \A j \in 1..(selfk - 1) : uA[i][j] = A[i][j]
                     /\ SumSeq(uA[i]) = One
              /\ \A s \in 1..selfk : \A j \in 1..selfd : \A q \in 1..(selfc - 1) :
                     uw[s][j][q] = w[s][j][q])

====
